---- MODULE Spec2Model ----
(***************************************************************************)
(* Retrieval-and-synthesis pipeline of the product comparison application: *)
(* VectorStore (src/rag/vector_store.py), QueryAnalyzer                    *)
(* (src/rag/query_analyzer.py), SmartRetriever (src/rag/retriever.py) and  *)
(* ComparisonSynthesizer (src/rag/synthesizer.py).                         *)
(*                                                                         *)
(* Texts that the code inspects character by character (user queries) are  *)
(* sequences of one-character strings.  Real numbers (distances, relevance *)
(* scores) are fixed-point integers in units of 1/Scale.                   *)
(***************************************************************************)
EXTENDS Integers, Sequences, FiniteSets, TLC

\* ------------------------------------------------------------------ bounds
\* at most MaxIds documents are ever stored in the collection
MaxIds == 3
\* longest product_urls list passed to compare
MaxKeys == 2
\* longest product list passed to add_products
MaxBatch == 2
\* longest result list handed to the diversity filter, and its largest cap
MaxList == 4
MaxCap == 2
\* longest list of queries or aspects handed to the summary loop
MaxQueries == 3
\* most words of a query handed to the heuristic fallback
MaxWords == 2
\* longest product_urls list of a compare over the persisted collection
MaxLongKeys == 6

\* threads of the process that call the accessors
MaxThreads == 2

\* ------------------------------------------------------------ optional values
\* Python None / a present value
None == [some |-> FALSE]
Some(v) == [some |-> TRUE, value |-> v]

\* ------------------------------------------------------------------- texts
\* str.lower() on one character
LowerChar(c) ==
    CASE c = "A" -> "a" [] c = "B" -> "b" [] c = "C" -> "c" [] c = "D" -> "d"
      [] c = "E" -> "e" [] c = "F" -> "f" [] c = "G" -> "g" [] c = "H" -> "h"
      [] c = "I" -> "i" [] c = "J" -> "j" [] c = "K" -> "k" [] c = "L" -> "l"
      [] c = "M" -> "m" [] c = "N" -> "n" [] c = "O" -> "o" [] c = "P" -> "p"
      [] c = "Q" -> "q" [] c = "R" -> "r" [] c = "S" -> "s" [] c = "T" -> "t"
      [] c = "U" -> "u" [] c = "V" -> "v" [] c = "W" -> "w" [] c = "X" -> "x"
      [] c = "Y" -> "y" [] c = "Z" -> "z" [] OTHER -> c

\* str.lower()
Lower(s) == [i \in 1..Len(s) |-> LowerChar(s[i])]

\* Python's `kw in s` on strings: kw occurs as a contiguous substring of s
Contains(s, kw) ==
    \E i \in 0..(Len(s) - Len(kw)) : SubSeq(s, i + 1, i + Len(kw)) = kw

\* any(kw in s for kw in kws), kws a sequence of keywords
ContainsAny(s, kws) == \E j \in 1..Len(kws) : Contains(s, kws[j])

\* a search text the analyzer's model may expand a query to
QPhone == <<"p","h","o","n","e">>

\* the user queries the model draws from
QComparePrice == <<"c","o","m","p","a","r","e"," ","p","r","i","c","e">>
QHowFast == <<"h","o","w"," ","f","a","s","t">>
QColor == <<"C","o","l","o","r">>
Queries == {QComparePrice, QHowFast, QColor}

\* ------------------------------------------------- QueryAnalyzer: fallback
comparative_keywords ==
    << <<"c","o","m","p","a","r","e">>, <<"v","e","r","s","u","s">>,
       <<"v","s">>, <<"w","h","i","c","h">>, <<"b","e","t","t","e","r">>,
       <<"b","e","s","t">>, <<"d","i","f","f","e","r","e","n","c","e">>,
       <<"b","e","t","w","e","e","n">>, <<"o","r">> >>

specific_keywords ==
    << <<"t","e","l","l"," ","m","e">>, <<"w","h","a","t"," ","i","s">>,
       <<"h","o","w">> >>

\* aspect_keywords, in the dict's insertion order
aspect_keywords ==
    << [aspect |-> "price",
        keywords |-> << <<"p","r","i","c","e">>, <<"c","o","s","t">>,
                        <<"e","x","p","e","n","s","i","v","e">>,
                        <<"c","h","e","a","p">>, <<"b","u","d","g","e","t">> >>],
       [aspect |-> "camera",
        keywords |-> << <<"c","a","m","e","r","a">>, <<"p","h","o","t","o">>,
                        <<"p","i","c","t","u","r","e">>, <<"v","i","d","e","o">> >>],
       [aspect |-> "battery",
        keywords |-> << <<"b","a","t","t","e","r","y">>, <<"c","h","a","r","g","e">>,
                        <<"p","o","w","e","r">> >>],
       [aspect |-> "display",
        keywords |-> << <<"d","i","s","p","l","a","y">>, <<"s","c","r","e","e","n">>,
                        <<"r","e","s","o","l","u","t","i","o","n">> >>],
       [aspect |-> "performance",
        keywords |-> << <<"p","e","r","f","o","r","m","a","n","c","e">>,
                        <<"s","p","e","e","d">>, <<"f","a","s","t">>,
                        <<"p","r","o","c","e","s","s","o","r">> >>],
       [aspect |-> "design",
        keywords |-> << <<"d","e","s","i","g","n">>, <<"l","o","o","k">>,
                        <<"s","t","y","l","e">>, <<"b","u","i","l","d">> >>] >>

\* the aspects loop of _fallback_analysis over the first n dict entries
RECURSIVE FallbackAspects(_, _)
FallbackAspects(query_lower, n) ==
    IF n = 0 THEN <<>>
    ELSE LET rest == FallbackAspects(query_lower, n - 1)
         IN  IF ContainsAny(query_lower, aspect_keywords[n].keywords)
             THEN Append(rest, aspect_keywords[n].aspect)
             ELSE rest

\* a fallback that matches the keywords against the query as typed
_fallback_analysis_case_sensitive(query) ==
    LET query_lower == query
        is_comparative == ContainsAny(query_lower, comparative_keywords)
        query_type == IF is_comparative THEN "comparison"
                      ELSE IF ContainsAny(query_lower, specific_keywords)
                           THEN "specific" ELSE "general"
    IN  [original_query |-> query,
         query_type |-> query_type,
         aspects |-> FallbackAspects(query_lower, Len(aspect_keywords)),
         entities |-> <<>>,
         is_comparative |-> is_comparative,
         expanded_query |-> query]

\* QueryAnalyzer._fallback_analysis
_fallback_analysis(query) ==
    LET query_lower == Lower(query)
        is_comparative == ContainsAny(query_lower, comparative_keywords)
        query_type == IF is_comparative THEN "comparison"
                      ELSE IF ContainsAny(query_lower, specific_keywords)
                           THEN "specific" ELSE "general"
    IN  [original_query |-> query,
         query_type |-> query_type,
         aspects |-> FallbackAspects(query_lower, Len(aspect_keywords)),
         entities |-> <<>>,
         is_comparative |-> is_comparative,
         expanded_query |-> query]

\* ------------------------------------------------- generation service (LLM)
\* What LLMClient.generate_json can do for the analyzer's prompt: raise, or
\* return text that is not JSON, JSON that is not an object, or a JSON object
\* holding the keys `keys` with the values of `val`.
JsonFields == {"query_type", "aspects", "entities", "is_comparative", "expanded_query"}

LLMError(reason) ==
    [kind |-> "error", reason |-> reason, keys |-> {},
     val |-> [query_type |-> "", aspects |-> <<>>, entities |-> <<>>,
              is_comparative |-> FALSE, expanded_query |-> <<>>]]
LLMText(kind) ==
    [kind |-> kind, reason |-> "", keys |-> {},
     val |-> [query_type |-> "", aspects |-> <<>>, entities |-> <<>>,
              is_comparative |-> FALSE, expanded_query |-> <<>>]]
LLMObject(keys, query_type, aspects, entities, is_comparative, expanded_query) ==
    [kind |-> "json_object", reason |-> "", keys |-> keys,
     val |-> [query_type |-> query_type, aspects |-> aspects, entities |-> entities,
              is_comparative |-> is_comparative, expanded_query |-> expanded_query]]

AnalyzerResponses ==
    { LLMError("timeout"),
      LLMText("not_json"),
      LLMText("json_non_object"),
      LLMObject({}, "", <<>>, <<>>, FALSE, <<>>),
      LLMObject(JsonFields, "comparison", <<"price">>, <<>>, TRUE, QPhone),
      LLMObject(JsonFields, "specific", <<"warranty">>, <<"Acme">>, FALSE, QHowFast),
      LLMObject({"query_type", "is_comparative"}, "general", <<>>, <<>>, TRUE, <<>>) }

\* dict.get(key, default) on a decoded JSON object
DictGet(resp, key, default) == IF key \in resp.keys THEN resp.val[key] ELSE default

\* an analyze whose except clause only covers the generation call
analyze_uncaught_decode(query, resp) ==
    IF resp.kind = "error" THEN _fallback_analysis(query)
    ELSE [original_query |-> query,
          query_type |-> DictGet(resp, "query_type", "general"),
          aspects |-> DictGet(resp, "aspects", <<>>),
          entities |-> DictGet(resp, "entities", <<>>),
          is_comparative |-> DictGet(resp, "is_comparative", FALSE),
          expanded_query |-> DictGet(resp, "expanded_query", query)]

\* QueryAnalyzer.analyze, given what the generation service did.  Every
\* exception inside the try block (generate_json raising, json.loads raising
\* JSONDecodeError, data.get raising AttributeError on a non-dict) reaches the
\* single except clause, which returns the fallback analysis.
analyze(query, resp) ==
    IF resp.kind = "error" THEN _fallback_analysis(query)
    ELSE IF resp.kind = "not_json" THEN _fallback_analysis(query)
    ELSE IF resp.kind = "json_non_object" THEN _fallback_analysis(query)
    ELSE [original_query |-> query,
          query_type |-> DictGet(resp, "query_type", "general"),
          aspects |-> DictGet(resp, "aspects", <<>>),
          entities |-> DictGet(resp, "entities", <<>>),
          is_comparative |-> DictGet(resp, "is_comparative", FALSE),
          expanded_query |-> DictGet(resp, "expanded_query", query)]

\* the value of `analysis` before analyze has run
NoAnalysis ==
    [original_query |-> <<>>, query_type |-> "", aspects |-> <<>>,
     entities |-> <<>>, is_comparative |-> FALSE, expanded_query |-> <<>>]

\* ------------------------------------------------------------ ProductInfo
NoStr == ""
ProductA ==
    [url |-> "u1", title |-> "Phone A", brand |-> "Acme", price |-> "100",
     currency |-> "$", category |-> NoStr, rating |-> 4, review_count |-> 12,
     description |-> NoStr]
ProductB ==
    [url |-> "u2", title |-> "Phone B", brand |-> NoStr, price |-> "200",
     currency |-> "$", category |-> NoStr, rating |-> 0, review_count |-> 0,
     description |-> NoStr]
ProductA2 ==
    [url |-> "u3", title |-> "Phone A", brand |-> "Acme", price |-> NoStr,
     currency |-> NoStr, category |-> NoStr, rating |-> 0, review_count |-> 0,
     description |-> "refurbished"]
Products == {ProductA, ProductB, ProductA2}
Urls == {"u1", "u2", "u3"}

\* `x or default` for an optional field (None and "" / 0 are falsy alike)
OrStr(x, default) == IF x = NoStr THEN default ELSE x

\* ProductInfo.to_text: the lines of the rendered document
to_text(p) ==
    << <<"# ", p.title>>, <<"URL: ", p.url>>, <<"">> >>
    \o (IF p.brand # NoStr THEN << <<"Brand: ", p.brand>> >> ELSE <<>>)
    \o (IF p.price # NoStr THEN << <<"Price: ", p.currency, p.price>> >> ELSE <<>>)
    \o (IF p.category # NoStr THEN << <<"Category: ", p.category>> >> ELSE <<>>)
    \o (IF p.rating # 0 THEN << <<"Rating: ", p.rating, "/5 (", p.review_count, " reviews)">> >>
        ELSE <<>>)
    \o << <<"">> >>
    \o (IF p.description # NoStr
        THEN << <<"## Description">>, <<p.description>>, <<"">> >> ELSE <<>>)

\* --------------------------------------------------------------- embeddings
\* EmbeddingGenerator.encode: an opaque deterministic map from a text to a
\* point of the embedding space, here one of the points 0..4 of a line.
encode(text) == Len(text) % 5

\* fixed-point unit: Scale stands for 1.0
Scale == 2

\* distance between two embeddings, in 0..2*Scale, i.e. in [0.0, 2.0]
Distance(a, b) == IF a >= b THEN a - b ELSE b - a

\* -------------------------------------------------------------- VectorStore
VARIABLES
    collection,     \* the Chroma collection: a set of stored entries
    nextId,         \* number of document ids stored so far (a fresh uuid4 per entry)
    pc,             \* where the current compare call is
    query,          \* compare's argument `query`
    product_urls,   \* compare's argument `product_urls` (<<>> for None or [])
    analysis,       \* the QueryAnalysis of the current call
    results,        \* the RetrievalResult list built so far
    keyIdx,         \* position of retrieve_for_comparison's loop in product_urls
    result,         \* the ComparisonResult returned by compare
    llmCalls,       \* the generation-service invocations of the current call, in
                    \* order, each with what the service did
    error,          \* the exception that left the last public call, if any
    lastOp,         \* the last VectorStore mutation: its name, its key and
                    \* what it returned
    searches,       \* the VectorStore.query calls of the current call, in order
    total_retrieved,\* RetrievalContext.total_retrieved of the current call
    batch,          \* the loop of generate_summary_comparison or
                    \* compare_with_aspects that issues the compare calls
    peer,           \* a retrieve call running concurrently with the compare call
    app,            \* the Streamlit session: st.session_state.products and the
                    \* collection the retriever's VectorStore handle is bound to
    accessors       \* the module-level instances behind the get_* accessors and
                    \* the threads inside them

vars == <<collection, nextId, pc, query, product_urls, analysis, results,
          keyIdx, result, llmCalls, error, lastOp, searches, total_retrieved,
          batch, peer, app, accessors>>

callVars == <<pc, query, product_urls, analysis, results, keyIdx, result, llmCalls,
              searches, total_retrieved, batch, peer, app, accessors>>

\* the state of one compare call
compareVars == <<pc, query, product_urls, analysis, results, keyIdx, result, llmCalls,
                 searches, total_retrieved>>

\* the callers around the compare call
outerVars == <<batch, peer, app, accessors>>

storeVars == <<collection, nextId, lastOp>>

NoError == "none"

\* the metadata dict built by add_product
Metadata(product) ==
    [url |-> product.url,
     title |-> product.title,
     brand |-> OrStr(product.brand, "Unknown"),
     price |-> OrStr(product.price, "N/A"),
     currency |-> OrStr(product.currency, ""),
     category |-> OrStr(product.category, "Unknown"),
     rating |-> product.rating,
     review_count |-> product.review_count]

\* the entry add_product stores under the fresh id doc_id
Entry(doc_id, product) ==
    [id |-> doc_id,
     embedding |-> encode(to_text(product)),
     document |-> to_text(product),
     metadata |-> Metadata(product)]

\* Chroma `where` filters: none, or exact equality on the url field
NoFilter == [field |-> "none", value |-> ""]
UrlFilter(url) == [field |-> "url", value |-> url]
\* a `where` filter that is ignored
MatchesAny(entry, filter_metadata) == TRUE

Matches(entry, filter_metadata) ==
    filter_metadata.field = "none" \/ entry.metadata.url = filter_metadata.value

Min(a, b) == IF a <= b THEN a ELSE b
Max(a, b) == IF a >= b THEN a ELSE b

\* all orders of the entries of `pool` by ascending distance to the point q
\* (entries at equal distance come in either order)
Rankings(pool, q) ==
    LET n == Cardinality(pool)
    IN  { s \in [1..n -> pool] :
            /\ \A i, j \in 1..n : i # j => s[i] # s[j]
            /\ \A i \in 1..(n - 1) :
                 Distance(q, s[i].embedding) <= Distance(q, s[i + 1].embedding) }

\* VectorStore.query: the result lists the collection can answer with, each
\* the n_results nearest matching entries with their distances
VectorStoreQuery(coll, query_text, n_results, filter_metadata) ==
    LET q == encode(query_text)
        pool == { e \in coll : Matches(e, filter_metadata) }
    IN  { [i \in 1..Min(n_results, Cardinality(pool)) |->
             [id |-> s[i].id, document |-> s[i].document,
              metadata |-> s[i].metadata,
              distance |-> Distance(q, s[i].embedding)]] : s \in Rankings(pool, q) }

\* ----------------------------------------------------------- SmartRetriever
\* a score that grows with the distance
RelevanceAsDistance(distance) == distance

\* retrieve, line 96: relevance = max(0.0, 1.0 - distance)
Relevance(distance) == Max(0, Scale - distance)

\* retrieve_for_comparison, line 186: relevance_score = 1.0 - distance
TargetedRelevance(distance) == Scale - distance

RetrievalResult(raw, relevance) ==
    [product_title |-> raw.metadata.title,
     brand |-> raw.metadata.brand,
     content |-> raw.document,
     metadata |-> raw.metadata,
     relevance_score |-> relevance]

\* retrieve, step 3: the loop over the first n raw results
RECURSIVE ProcessResults(_, _, _)
ProcessResults(raw_results, n, min_relevance) ==
    IF n = 0 THEN <<>>
    ELSE LET rest == ProcessResults(raw_results, n - 1, min_relevance)
             relevance == Relevance(raw_results[n].distance)
         IN  IF relevance < min_relevance THEN rest
             ELSE Append(rest, RetrievalResult(raw_results[n], relevance))

\* len([r for r in diverse_results if r.product_title == title])
CountTitle(rs, title) == Cardinality({ i \in 1..Len(rs) : rs[i].product_title = title })

\* _ensure_diversity after its loop has walked the first n results: the pair
\* of diverse_results and seen_products
RECURSIVE DiversityLoop(_, _, _)
DiversityLoop(rs, n, max_per_product) ==
    IF n = 0 THEN [diverse_results |-> <<>>, seen_products |-> {}]
    ELSE LET prev == DiversityLoop(rs, n - 1, max_per_product)
             r == rs[n]
         IN  IF r.product_title \notin prev.seen_products
             THEN [diverse_results |-> Append(prev.diverse_results, r),
                   seen_products |-> prev.seen_products \cup {r.product_title}]
             ELSE IF CountTitle(prev.diverse_results, r.product_title) < max_per_product
             THEN [diverse_results |-> Append(prev.diverse_results, r),
                   seen_products |-> prev.seen_products]
             ELSE prev

\* a cap that is off by one
_ensure_diversity_off_by_one(rs, max_per_product) ==
    DiversityLoop(rs, Len(rs), max_per_product + 1).diverse_results

_ensure_diversity(rs, max_per_product) ==
    DiversityLoop(rs, Len(rs), max_per_product).diverse_results

\* retrieve, steps 3 and 4, on the raw results of the index search
RetrieveResults(an, raw_results, min_relevance) ==
    LET rs == ProcessResults(raw_results, Len(raw_results), min_relevance)
    IN  IF an.is_comparative /\ Len(rs) > 0 THEN _ensure_diversity(rs, 1) ELSE rs

\* RetrievalContext.get_all_products
get_all_products(rs) == [i \in 1..Len(rs) |-> rs[i].product_title]

\* a top-k that returns every result
get_top_k_all(rs, k) == rs

\* RetrievalContext.get_top_k
get_top_k(rs, k) == SubSeq(rs, 1, Min(k, Len(rs)))

\* the lines format_context_for_llm emits for the i-th product
ProductSection(i, r) ==
    << <<"## Product ", i, ": ", r.product_title>>,
       <<"Brand: ", r.brand>>,
       <<"Relevance: ", r.relevance_score>>,
       <<"">>,
       <<r.content>>,
       <<"">>,
       <<"---">>,
       <<"">> >>

\* the per-product loop of format_context_for_llm over the first n of top
RECURSIVE ProductSections(_, _)
ProductSections(top, n) ==
    IF n = 0 THEN <<>>
    ELSE ProductSections(top, n - 1) \o ProductSection(n, top[n])

\* format_context_for_llm(context, max_products): the lines of the text
format_context_for_llm(q, an, rs, max_products) ==
    << <<"# Product Information">>, <<"">>, <<"Query: ", q>>,
       <<"Query Type: ", an.query_type>>, <<"">> >>
    \o (IF Len(an.aspects) > 0
        THEN << <<"Focus Areas: ", an.aspects>>, <<"">> >> ELSE <<>>)
    \o << <<"---">>, <<"">> >>
    \o ProductSections(get_top_k(rs, max_products), Len(get_top_k(rs, max_products)))

\* ---------------------------------------------------- ComparisonSynthesizer
\* the dataclass constructor with __post_init__: citations None becomes []
ComparisonResult(q, answer, products_compared, comparison_table, summary, citations) ==
    [query |-> q,
     answer |-> answer,
     products_compared |-> products_compared,
     comparison_table |-> comparison_table,
     summary |-> summary,
     citations |-> IF citations.some THEN citations.value ELSE <<>>]

\* the answers compare can give; a text is the sequence of its pieces
NoProductsAnswer ==
    <<"I couldn't find any products to compare. Please add products first.">>
ErrorAnswer(prefix, reason) == <<prefix, "LLM generation failed: ", reason>>

\* what LLMClient.generate can do for a synthesis prompt: return text, or
\* raise Exception("LLM generation failed: <reason>")
GenerationOutcomes ==
    { [ok |-> TRUE, text |-> "generated answer", reason |-> ""],
      [ok |-> FALSE, text |-> "", reason |-> "rate limit"],
      [ok |-> FALSE, text |-> "", reason |-> "connection reset"] }

\* the row _extract_comparison_table builds from one result
TableRow(r) ==
    [brand |-> r.metadata.brand,
     price |-> <<r.metadata.currency, r.metadata.price>>,
     rating |-> r.metadata.rating]

\* a metadata key that an entry does not hold: reading it raises KeyError
Missing == "<missing>"

\* the metadata reads of _extract_comparison_table's loop raise KeyError
TableKeyError(r) ==
    \/ r.metadata.brand = Missing
    \/ r.metadata.currency = Missing
    \/ r.metadata.price = Missing

\* a table built over every result instead of the top 5
TableTopAll(rs) == rs

\* _extract_comparison_table, line 236: context.results[:5]
TableTop(rs) == SubSeq(rs, 1, Min(5, Len(rs)))

\* a table extraction without its try/except: a missing key leaves a row out
_extract_comparison_table_partial(rs) ==
    IF Len(rs) < 2 THEN None
    ELSE LET top == TableTop(rs)
             titles == { top[i].product_title : i \in 1..Len(top) }
             last(t) == CHOOSE i \in 1..Len(top) :
                          /\ top[i].product_title = t
                          /\ \A j \in 1..Len(top) : top[j].product_title = t => j <= i
         IN  Some([t \in titles |-> TableRow(top[last(t)])])

\* _extract_comparison_table: a dict keyed by product title over the top 5
\* results, a later result overwriting an earlier one of the same title; any
\* exception in the loop gives None
_extract_comparison_table(rs) ==
    IF Len(rs) < 2 THEN None
    ELSE LET top == TableTop(rs)
             titles == { top[i].product_title : i \in 1..Len(top) }
             last(t) == CHOOSE i \in 1..Len(top) :
                          /\ top[i].product_title = t
                          /\ \A j \in 1..Len(top) : top[j].product_title = t => j <= i
         IN  IF \E i \in 1..Len(top) : TableKeyError(top[i]) THEN None
             ELSE Some([t \in titles |-> TableRow(top[last(t)])])

\* citations with repeated source keys dropped
RECURSIVE CitationsDeduplicated(_)
CitationsDeduplicated(rs) ==
    IF Len(rs) = 0 THEN <<>>
    ELSE LET front == SubSeq(rs, 1, Len(rs) - 1)
             rest == CitationsDeduplicated(front)
             url == rs[Len(rs)].metadata.url
         IN  IF \E i \in 1..Len(front) : front[i].metadata.url = url
             THEN rest ELSE Append(rest, url)

\* [r.metadata["url"] for r in context.results]
Citations(rs) == [i \in 1..Len(rs) |-> rs[i].metadata.url]

\* a failure branch that forgets the retrieved titles
_generate_comparison_no_titles(q, rs, gen) ==
    IF gen.ok
    THEN ComparisonResult(q, <<gen.text>>, get_all_products(rs),
                          _extract_comparison_table(rs), None, Some(Citations(rs)))
    ELSE ComparisonResult(q, ErrorAnswer("Error generating comparison: ", gen.reason),
                          <<>>, None, None, None)

\* _generate_comparison, given what the generation service did
_generate_comparison(q, rs, gen) ==
    IF gen.ok
    THEN ComparisonResult(q, <<gen.text>>, get_all_products(rs),
                          _extract_comparison_table(rs), None, Some(Citations(rs)))
    ELSE ComparisonResult(q, ErrorAnswer("Error generating comparison: ", gen.reason),
                          get_all_products(rs), None, None, None)

\* _generate_answer, given what the generation service did
_generate_answer(q, rs, gen) ==
    IF gen.ok
    THEN ComparisonResult(q, <<gen.text>>, get_all_products(rs),
                          None, None, Some(Citations(rs)))
    ELSE ComparisonResult(q, ErrorAnswer("Error generating answer: ", gen.reason),
                          get_all_products(rs), None, None, None)

\* compare, lines 72-78: the result for an empty context
NoResults(q) ==
    ComparisonResult(q, NoProductsAnswer, <<>>, None, Some("No products found."), None)

\* no summary loop is running
NoBatch ==
    [pc |-> "idle", queries |-> <<>>, keys |-> <<>>, idx |-> 1, results |-> <<>>,
     calls |-> <<>>]

\* no concurrent retrieve call is running
NoPeer ==
    [pc |-> "idle", query |-> <<>>, max_results |-> 0, min_relevance |-> 0,
     analysis |-> NoAnalysis, results |-> <<>>, llmCalls |-> <<>>, searches |-> <<>>,
     during |-> {}]

\* a session that listed no product and never asked for the retriever: the
\* retriever's VectorStore does not exist yet ("none"); once constructed its
\* collection attribute is bound to the collection that is current ("live") or
\* to one that clear() of another handle has deleted since ("stale", dropped
\* holding the entries of that collection when it was deleted); answer is what
\* the handle's last query returned
NoApp ==
    [products |-> <<>>, handle |-> "none", dropped |-> {}, answer |-> <<>>]

\* the accessors with a module-level instance, and for each the accessors its
\* constructor calls, in order
Accessors ==
    {"get_vector_store", "get_retriever", "get_synthesizer", "get_llm_client",
     "get_embedding_generator"}

Constructs(a) ==
    CASE a = "get_synthesizer"  -> <<"get_llm_client", "get_retriever">>
      [] a = "get_retriever"    -> <<"get_vector_store", "get_llm_client">>
      [] a = "get_vector_store" -> <<"get_embedding_generator">>
      [] OTHER                  -> <<>>

\* the accessors called from outside the constructors (app.py, the scripts,
\* ProductExtractor.__init__)
EntryAccessors ==
    {"get_vector_store", "get_retriever", "get_synthesizer", "get_llm_client"}

Threads ==
    1..MaxThreads

\* a fresh process: every module-level instance is None (0), nothing was
\* constructed, no thread is inside an accessor, no accessor returned an
\* instance to a caller yet
NoAccessors ==
    [instance |-> [a \in Accessors |-> 0],
     built    |-> [a \in Accessors |-> 0],
     stack    |-> [t \in Threads |-> <<>>],
     returned |-> [a \in Accessors |-> {}]]

\* ------------------------------------------------------------------ inputs
\* the keys callers pass: two stored products' urls and a url never stored
KeyUrls == {"u1", "u2", "u9"}
KeyLists == UNION { [1..n -> KeyUrls] : n \in 1..MaxKeys }
ServiceOutcomes == {"ok", "embedding_error", "search_error"}
BatchLists == UNION { [1..n -> Products] : n \in 1..MaxBatch }

\* the value of lastOp before any mutation; a mutation's record
NoOp == [op |-> "none", arg |-> "", ret |-> <<>>]
Op(op, arg, ret) == [op |-> op, arg |-> arg, ret |-> ret]

\* the record of one VectorStore.query call
QueryCall(query_text, n_results, filter_metadata) ==
    [text |-> query_text, n_results |-> n_results, filter |-> filter_metadata]

\* -------------------------------------------------------------------- Init
Init ==
    /\ collection = {}
    /\ nextId = 0
    /\ pc = "idle"
    /\ query = <<>>
    /\ product_urls = <<>>
    /\ analysis = NoAnalysis
    /\ results = <<>>
    /\ keyIdx = 1
    /\ result = None
    /\ llmCalls = <<>>
    /\ error = NoError
    /\ lastOp = NoOp
    /\ searches = <<>>
    /\ total_retrieved = 0
    /\ batch = NoBatch
    /\ peer = NoPeer
    /\ app = NoApp
    /\ accessors = NoAccessors

\* ----------------------------------------------------------------- actions
\* VectorStore.add_product(product); the embedding service or the collection
\* write may raise
AddProduct(product, outcome) ==
    /\ pc = "idle"
    /\ nextId < MaxIds
    /\ IF outcome = "ok"
       THEN /\ collection' = collection \cup {Entry(nextId + 1, product)}
            /\ nextId' = nextId + 1
            /\ error' = NoError
            /\ lastOp' = Op("add_product", product.url, <<nextId + 1>>)
       ELSE /\ collection' = collection
            /\ nextId' = nextId
            /\ error' = outcome
            /\ lastOp' = Op("add_product", product.url, <<>>)
    /\ UNCHANGED callVars

\* a batch add that writes entry by entry and stops at the failure, the first
\* entry already stored
AddProductsPartial(products, outcome) ==
    /\ pc = "idle"
    /\ nextId + Len(products) <= MaxIds
    /\ IF outcome = "ok"
       THEN /\ collection' = collection \cup
                    { Entry(nextId + i, products[i]) : i \in 1..Len(products) }
            /\ nextId' = nextId + Len(products)
            /\ error' = NoError
            /\ lastOp' = Op("add_products", "", [i \in 1..Len(products) |-> nextId + i])
       ELSE /\ collection' = collection \cup {Entry(nextId + 1, products[1])}
            /\ nextId' = nextId + 1
            /\ error' = outcome
            /\ lastOp' = Op("add_products", "", <<>>)
    /\ UNCHANGED callVars

\* VectorStore.add_products(products): one batched embedding call and one
\* collection write for the whole list
AddProducts(products, outcome) ==
    /\ pc = "idle"
    /\ nextId + Len(products) <= MaxIds
    /\ IF outcome = "ok"
       THEN /\ collection' = collection \cup
                    { Entry(nextId + i, products[i]) : i \in 1..Len(products) }
            /\ nextId' = nextId + Len(products)
            /\ error' = NoError
            /\ lastOp' = Op("add_products", "", [i \in 1..Len(products) |-> nextId + i])
       ELSE /\ collection' = collection
            /\ nextId' = nextId
            /\ error' = outcome
            /\ lastOp' = Op("add_products", "", <<>>)
    /\ UNCHANGED callVars

\* a delete that removes one matching entry only
DeleteByUrlFirstOnly(url) ==
    /\ pc = "idle"
    /\ LET found == { e \in collection : e.metadata.url = url }
       IN  IF found # {}
           THEN LET first == CHOOSE e \in found : \A f \in found : e.id <= f.id
                IN  /\ collection' = collection \ {first}
                    /\ lastOp' = Op("delete_by_url", url, <<1>>)
           ELSE /\ collection' = collection
                /\ lastOp' = Op("delete_by_url", url, <<0>>)
    /\ error' = NoError
    /\ UNCHANGED <<nextId, callVars>>

\* VectorStore.delete_by_url(url)
DeleteByUrl(url) ==
    /\ pc = "idle"
    /\ LET found == { e \in collection : e.metadata.url = url }
       IN  IF found # {}
           THEN /\ collection' = collection \ found
                /\ lastOp' = Op("delete_by_url", url, <<Cardinality(found)>>)
           ELSE /\ collection' = collection
                /\ lastOp' = Op("delete_by_url", url, <<0>>)
    /\ error' = NoError
    /\ UNCHANGED <<nextId, callVars>>

\* a clear that recreates nothing and leaves the entries in place
ClearKeepsEntries ==
    /\ pc = "idle"
    /\ collection' = collection
    /\ lastOp' = Op("clear", "", <<>>)
    /\ error' = NoError
    /\ UNCHANGED <<nextId, callVars>>

\* VectorStore.clear(): the collection is deleted and created anew
Clear ==
    /\ pc = "idle"
    /\ collection' = {}
    /\ lastOp' = Op("clear", "", <<>>)
    /\ error' = NoError
    /\ UNCHANGED <<nextId, callVars>>

\* a compare that goes on to generation without looking at the context
AfterRetrievalUnchecked(rs) ==
    /\ result' = result
    /\ pc' = "generate"

\* compare step 1 once the context is complete: the empty-context return of
\* lines 72-78, or on to the generation of lines 86-89
AfterRetrieval(rs) ==
    IF Len(rs) = 0
    THEN /\ result' = Some(NoResults(query))
         /\ pc' = "returned"
    ELSE /\ result' = result
         /\ pc' = "generate"

\* a compare that analyses the query before any lookup
StartCompareAnalyzeFirst(q, urls) ==
    /\ pc = "idle"
    /\ query' = q
    /\ product_urls' = urls
    /\ analysis' = NoAnalysis
    /\ results' = <<>>
    /\ keyIdx' = 1
    /\ result' = None
    /\ llmCalls' = <<>>
    /\ searches' = <<>>
    /\ total_retrieved' = 0
    /\ error' = NoError
    /\ pc' = "analyze"
    /\ UNCHANGED <<storeVars, outerVars>>

\* ComparisonSynthesizer.compare(query, product_urls) is called
StartCompare(q, urls) ==
    /\ pc = "idle"
    /\ query' = q
    /\ product_urls' = urls
    /\ analysis' = NoAnalysis
    /\ results' = <<>>
    /\ keyIdx' = 1
    /\ result' = None
    /\ llmCalls' = <<>>
    /\ searches' = <<>>
    /\ total_retrieved' = 0
    /\ error' = NoError
    /\ pc' = IF urls # <<>> THEN "lookup" ELSE "analyze"
    /\ UNCHANGED <<storeVars, outerVars>>

\* query_analyzer.analyze(query), first statement of retrieve and last but
\* one of retrieve_for_comparison's targeted branch
Analyze(resp) ==
    /\ pc = "analyze"
    /\ llmCalls' = Append(llmCalls, [op |-> "generate_json", resp |-> resp])
    /\ analysis' = analyze(query, resp)
    /\ IF product_urls # <<>>
       THEN /\ total_retrieved' = Len(results)
            /\ AfterRetrieval(results)
       ELSE /\ pc' = "search"
            /\ UNCHANGED <<result, total_retrieved>>
    /\ UNCHANGED <<storeVars, outerVars, query, product_urls, results, keyIdx, error,
                   searches>>

\* retrieve(query, max_results=10): the index search with the expanded query
\* and the processing of its results
Search(outcome) ==
    /\ pc = "search"
    /\ searches' = Append(searches, QueryCall(analysis.expanded_query, 10, NoFilter))
    /\ IF outcome = "ok"
       THEN \E raw \in VectorStoreQuery(collection, analysis.expanded_query, 10, NoFilter) :
                /\ results' = RetrieveResults(analysis, raw, 0)
                /\ total_retrieved' = Len(results')
                /\ AfterRetrieval(results')
                /\ error' = error
       ELSE /\ pc' = "raised"
            /\ error' = outcome
            /\ UNCHANGED <<results, result, total_retrieved>>
    /\ UNCHANGED <<storeVars, outerVars, query, product_urls, analysis, keyIdx, llmCalls>>

\* a loop that ends at the first key without an entry
LookupStopsAtMiss(outcome) ==
    /\ pc = "lookup"
    /\ searches' = Append(searches, QueryCall(query, 1, UrlFilter(product_urls[keyIdx])))
    /\ IF outcome = "ok"
       THEN \E raw \in VectorStoreQuery(collection, query, 1, UrlFilter(product_urls[keyIdx])) :
                /\ results' = IF Len(raw) > 0
                              THEN Append(results,
                                          RetrievalResult(raw[1], TargetedRelevance(raw[1].distance)))
                              ELSE results
                /\ keyIdx' = keyIdx + 1
                /\ pc' = IF keyIdx = Len(product_urls) \/ Len(raw) = 0
                         THEN "analyze" ELSE "lookup"
                /\ error' = error
       ELSE /\ pc' = "raised"
            /\ error' = outcome
            /\ UNCHANGED <<results, keyIdx>>
    /\ UNCHANGED <<storeVars, outerVars, query, product_urls, analysis, result, llmCalls,
                   total_retrieved>>

\* retrieve_for_comparison: one iteration of the loop over product_urls
Lookup(outcome) ==
    /\ pc = "lookup"
    /\ searches' = Append(searches, QueryCall(query, 1, UrlFilter(product_urls[keyIdx])))
    /\ IF outcome = "ok"
       THEN \E raw \in VectorStoreQuery(collection, query, 1, UrlFilter(product_urls[keyIdx])) :
                /\ results' = IF Len(raw) > 0
                              THEN Append(results,
                                          RetrievalResult(raw[1], TargetedRelevance(raw[1].distance)))
                              ELSE results
                /\ keyIdx' = keyIdx + 1
                /\ pc' = IF keyIdx = Len(product_urls) THEN "analyze" ELSE "lookup"
                /\ error' = error
       ELSE /\ pc' = "raised"
            /\ error' = outcome
            /\ UNCHANGED <<results, keyIdx>>
    /\ UNCHANGED <<storeVars, outerVars, query, product_urls, analysis, result, llmCalls,
                   total_retrieved>>

\* compare step 2: _generate_comparison or _generate_answer
Generate(gen) ==
    /\ pc = "generate"
    /\ llmCalls' = Append(llmCalls,
                          [op |-> "generate", resp |-> gen,
                           context |-> format_context_for_llm(
                                           query, analysis, results,
                                           IF analysis.is_comparative THEN 5 ELSE 3)])
    /\ result' = Some(IF analysis.is_comparative
                      THEN _generate_comparison(query, results, gen)
                      ELSE _generate_answer(query, results, gen))
    /\ pc' = "returned"
    /\ UNCHANGED <<storeVars, outerVars, query, product_urls, analysis, results, keyIdx,
                   error, searches, total_retrieved>>

\* the caller takes the returned result, or the exception, and the call ends
Return ==
    /\ pc \in {"returned", "raised"}
    /\ pc' = "idle"
    /\ query' = <<>>
    /\ product_urls' = <<>>
    /\ analysis' = NoAnalysis
    /\ results' = <<>>
    /\ keyIdx' = 1
    /\ result' = None
    /\ llmCalls' = <<>>
    /\ searches' = <<>>
    /\ total_retrieved' = 0
    /\ error' = NoError
    /\ UNCHANGED <<storeVars, outerVars>>

Next ==
    \/ \E p \in Products, o \in ServiceOutcomes : AddProduct(p, o)
    \/ \E q \in Queries, urls \in {<<>>} \cup KeyLists : StartCompare(q, urls)
    \/ \E resp \in AnalyzerResponses : Analyze(resp)
    \/ \E o \in ServiceOutcomes : Search(o)
    \/ \E o \in ServiceOutcomes : Lookup(o)
    \/ \E gen \in GenerationOutcomes : Generate(gen)
    \/ Return

Spec == Init /\ [][Next]_vars

\* an entry persisted by another writer, without price and currency keys
ForeignEntry ==
    [id |-> 4,
     embedding |-> 1,
     document |-> << <<"# ", "Phone C">>, <<"URL: ", "u4">> >>,
     metadata |-> [url |-> "u4", title |-> "Phone C", brand |-> "Other",
                   price |-> Missing, currency |-> Missing, category |-> "Unknown",
                   rating |-> 3, review_count |-> 0]]

\* the collection a store is opened on: every product stored once, and the
\* foreign entry
PersistedCollection ==
    {Entry(1, ProductA), Entry(2, ProductB), Entry(3, ProductA2), ForeignEntry}

LongKeyLists == UNION { [1..n -> {"u1", "u2", "u3", "u4"}] : n \in 1..MaxLongKeys }

\* compare(query, product_urls) has been called on the persisted collection
InitSynthesis ==
    /\ collection = PersistedCollection
    /\ nextId = 4
    /\ pc = "lookup"
    /\ query \in {QComparePrice}
    /\ product_urls \in LongKeyLists
    /\ analysis = NoAnalysis
    /\ results = <<>>
    /\ keyIdx = 1
    /\ result = None
    /\ llmCalls = <<>>
    /\ error = NoError
    /\ lastOp = NoOp
    /\ searches = <<>>
    /\ total_retrieved = 0
    /\ batch = NoBatch
    /\ peer = NoPeer
    /\ app = NoApp
    /\ accessors = NoAccessors

\* what the analyzer's model answers in these calls
SynthesisResponses ==
    { LLMText("not_json"),
      LLMObject(JsonFields, "specific", <<"warranty">>, <<"Acme">>, FALSE, QHowFast) }

NextSynthesis ==
    \/ \E o \in {"ok", "search_error"} : Lookup(o)
    \/ \E resp \in SynthesisResponses \cup { LLMObject({}, "", <<>>, <<>>, FALSE, <<>>) } :
          Analyze(resp)
    \/ \E gen \in GenerationOutcomes : Generate(gen)

SpecSynthesis == InitSynthesis /\ [][NextSynthesis]_vars

\* the words the queries of the fallback are made of
Words ==
    { <<"C","o","m","p","a","r","e">>,
      <<"v","s">>,
      <<"C","o","l","o","r">>,
      <<"t","e","l","l">>,
      <<"m","e">>,
      <<"w","h","a","t">>,
      <<"i","s">>,
      <<"s","h","o","w">>,
      <<"C","o","s","t">>,
      <<"p","h","o","t","o">>,
      <<"F","A","S","T">>,
      <<"p","h","o","n","e">> }

\* " ".join(ws[1..n])
RECURSIVE JoinWords(_, _)
JoinWords(ws, n) ==
    IF n = 1 THEN ws[1] ELSE JoinWords(ws, n - 1) \o <<" ">> \o ws[n]

\* the queries of one to MaxWords words
FallbackQueries ==
    { JoinWords(ws, Len(ws)) : ws \in UNION { [1..n -> Words] : n \in 1..MaxWords } }

\* analyze(query) has been called and is about to ask the generation service
InitFallback ==
    /\ collection = {}
    /\ nextId = 0
    /\ pc = "analyze"
    /\ query \in FallbackQueries
    /\ product_urls = <<>>
    /\ analysis = NoAnalysis
    /\ results = <<>>
    /\ keyIdx = 1
    /\ result = None
    /\ llmCalls = <<>>
    /\ error = NoError
    /\ lastOp = NoOp
    /\ searches = <<>>
    /\ total_retrieved = 0
    /\ batch = NoBatch
    /\ peer = NoPeer
    /\ app = NoApp
    /\ accessors = NoAccessors

\* the answers of the generation service that make analyze fall back
FallbackResponses == { LLMError("timeout"), LLMText("not_json") }

NextFallback == \E resp \in FallbackResponses : Analyze(resp)

SpecFallback == InitFallback /\ [][NextFallback]_vars

\* a dict that takes every assignment as a new item
DictAppend(items, key, value) == Append(items, [key |-> key, value |-> value])

\* results[query] = result on a dict kept as the sequence of its items in
\* insertion order: an existing key keeps its place and takes the new value
DictSet(items, key, value) ==
    IF \E i \in 1..Len(items) : items[i].key = key
    THEN [i \in 1..Len(items) |->
            IF items[i].key = key THEN [key |-> key, value |-> value] ELSE items[i]]
    ELSE Append(items, [key |-> key, value |-> value])

\* compare_with_aspects, lines 297-304: the aspects used when none are given
DefaultAspects ==
    << <<"p","r","i","c","e"," ","a","n","d"," ","v","a","l","u","e"," ","f","o","r"," ","m","o","n","e","y">>,
       <<"f","e","a","t","u","r","e","s"," ","a","n","d"," ","s","p","e","c","i","f","i","c","a","t","i","o","n","s">>,
       <<"p","e","r","f","o","r","m","a","n","c","e"," ","a","n","d"," ","s","p","e","e","d">>,
       <<"d","e","s","i","g","n"," ","a","n","d"," ","b","u","i","l","d"," ","q","u","a","l","i","t","y">>,
       <<"u","s","e","r"," ","r","e","v","i","e","w","s"," ","a","n","d"," ","r","a","t","i","n","g","s">> >>

\* compare_with_aspects, lines 306-309: f"Compare the {aspect} of these products"
AspectQuery(aspect) ==
    <<"C","o","m","p","a","r","e"," ","t","h","e"," ">> \o aspect
    \o <<" ","o","f"," ","t","h","e","s","e"," ","p","r","o","d","u","c","t","s">>

\* generate_summary_comparison(queries, product_urls) is called
generate_summary_comparison(queries, urls) ==
    /\ batch.pc = "idle"
    /\ pc = "idle"
    /\ batch' = [pc |-> "loop", queries |-> queries, keys |-> urls, idx |-> 1,
                 results |-> <<>>, calls |-> <<>>]
    /\ UNCHANGED <<storeVars, compareVars, error, peer, app, accessors>>

\* compare_with_aspects(product_urls, aspects) is called
compare_with_aspects(urls, aspects) ==
    LET given == IF aspects.some THEN aspects.value ELSE DefaultAspects
    IN  generate_summary_comparison([i \in 1..Len(given) |-> AspectQuery(given[i])], urls)

\* the loop of generate_summary_comparison calls compare for its next query
SummaryCall ==
    /\ batch.pc = "loop"
    /\ batch.idx <= Len(batch.queries)
    /\ StartCompare(batch.queries[batch.idx], batch.keys)

\* the compare call has returned: results[query] = result, and on to the next
SummaryCollect ==
    /\ batch.pc = "loop"
    /\ pc = "returned"
    /\ batch' = [batch EXCEPT
                   !.results = DictSet(@, query, result.value),
                   !.calls = Append(@, [query |-> query, product_urls |-> product_urls,
                                        result |-> result.value]),
                   !.idx = @ + 1]
    /\ pc' = "idle"
    /\ query' = <<>>
    /\ product_urls' = <<>>
    /\ analysis' = NoAnalysis
    /\ results' = <<>>
    /\ keyIdx' = 1
    /\ result' = None
    /\ llmCalls' = <<>>
    /\ searches' = <<>>
    /\ total_retrieved' = 0
    /\ UNCHANGED <<storeVars, error, peer, app, accessors>>

\* the compare call has raised: the exception leaves the loop
SummaryRaise ==
    /\ batch.pc = "loop"
    /\ pc = "raised"
    /\ batch' = [batch EXCEPT !.pc = "raised"]
    /\ pc' = "idle"
    /\ UNCHANGED <<storeVars, query, product_urls, analysis, results, keyIdx, result,
                   llmCalls, searches, total_retrieved, error, peer, app, accessors>>

\* the loop is over: return results
SummaryReturn ==
    /\ batch.pc = "loop"
    /\ pc = "idle"
    /\ batch.idx > Len(batch.queries)
    /\ batch' = [batch EXCEPT !.pc = "returned"]
    /\ UNCHANGED <<storeVars, compareVars, error, peer, app, accessors>>

\* the lists of queries and of aspects a caller passes
QueryLists == UNION { [1..n -> Queries] : n \in 0..MaxQueries }
AspectLists ==
    UNION { [1..n -> { <<"p","r","i","c","e">>, <<"d","e","s","i","g","n">> }] : n \in 0..MaxQueries }
SummaryKeys == { <<>>, <<"u1", "u2">> }

\* the outcomes of the generation call drawn on in the summary loop
SummaryGenerations == { gen \in GenerationOutcomes : gen.reason \in {"", "rate limit"} }

\* two products are stored and no call is running
InitSummary ==
    /\ collection = {Entry(1, ProductA), Entry(2, ProductB)}
    /\ nextId = 2
    /\ pc = "idle"
    /\ query = <<>>
    /\ product_urls = <<>>
    /\ analysis = NoAnalysis
    /\ results = <<>>
    /\ keyIdx = 1
    /\ result = None
    /\ llmCalls = <<>>
    /\ error = NoError
    /\ lastOp = NoOp
    /\ searches = <<>>
    /\ total_retrieved = 0
    /\ batch = NoBatch
    /\ peer = NoPeer
    /\ app = NoApp
    /\ accessors = NoAccessors

NextSummary ==
    \/ \E qs \in QueryLists, urls \in SummaryKeys : generate_summary_comparison(qs, urls)
    \/ \E urls \in SummaryKeys, aspects \in {None} \cup { Some(a) : a \in AspectLists } :
           compare_with_aspects(urls, aspects)
    \/ SummaryCall
    \/ \E resp \in {LLMText("not_json")} : Analyze(resp)
    \/ \E o \in {"ok", "search_error"} : Search(o)
    \/ \E o \in {"ok", "search_error"} : Lookup(o)
    \/ \E gen \in SummaryGenerations : Generate(gen)
    \/ SummaryCollect
    \/ SummaryRaise
    \/ SummaryReturn

SpecSummary == InitSummary /\ [][NextSummary]_vars

\* retrieve(query, max_results, min_relevance) is called by a second caller
\* while the compare call is at any of its steps
PeerRetrieve(q, max_results, min_relevance) ==
    /\ peer.pc = "idle"
    /\ peer' = [NoPeer EXCEPT !.pc = "analyze", !.query = q,
                              !.max_results = max_results,
                              !.min_relevance = min_relevance,
                              !.during = {pc}]
    /\ UNCHANGED <<storeVars, compareVars, error, batch, app, accessors>>

\* an analyzer that keeps the analysis of its last call in the retriever
PeerAnalyzeShared(resp) ==
    /\ peer.pc = "analyze"
    /\ peer' = [peer EXCEPT !.pc = "search",
                            !.analysis = analyze(peer.query, resp),
                            !.llmCalls = Append(@, [op |-> "generate_json", resp |-> resp]),
                            !.during = @ \cup {pc}]
    /\ analysis' = analyze(peer.query, resp)
    /\ UNCHANGED <<storeVars, pc, query, product_urls, results, keyIdx, result, llmCalls,
                   searches, total_retrieved, error, batch, app, accessors>>

\* the second caller's retrieve, step 1: query_analyzer.analyze(query)
PeerAnalyze(resp) ==
    /\ peer.pc = "analyze"
    /\ peer' = [peer EXCEPT !.pc = "search",
                            !.analysis = analyze(peer.query, resp),
                            !.llmCalls = Append(@, [op |-> "generate_json", resp |-> resp]),
                            !.during = @ \cup {pc}]
    /\ UNCHANGED <<storeVars, compareVars, error, batch, app, accessors>>

\* a search that always asks the index for 10 results
PeerSearchFixedK(outcome) ==
    /\ peer.pc = "search"
    /\ LET call == QueryCall(peer.analysis.expanded_query, 10, NoFilter)
       IN  IF outcome = "ok"
           THEN \E raw \in VectorStoreQuery(collection, call.text, call.n_results,
                                           call.filter) :
                    peer' = [peer EXCEPT
                               !.pc = "returned",
                               !.results = RetrieveResults(peer.analysis, raw,
                                                           peer.min_relevance),
                               !.searches = Append(@, [call |-> call, raw |-> raw]),
                               !.during = @ \cup {pc}]
           ELSE peer' = [peer EXCEPT !.pc = "raised",
                                     !.searches = Append(@, [call |-> call, raw |-> <<>>]),
                                     !.during = @ \cup {pc}]
    /\ UNCHANGED <<storeVars, compareVars, error, batch, app, accessors>>

\* the second caller's retrieve, steps 2 to 4: the index search with the
\* expanded query, the processing of its results and the return
PeerSearch(outcome) ==
    /\ peer.pc = "search"
    /\ LET call == QueryCall(peer.analysis.expanded_query, peer.max_results, NoFilter)
       IN  IF outcome = "ok"
           THEN \E raw \in VectorStoreQuery(collection, call.text, call.n_results,
                                           call.filter) :
                    peer' = [peer EXCEPT
                               !.pc = "returned",
                               !.results = RetrieveResults(peer.analysis, raw,
                                                           peer.min_relevance),
                               !.searches = Append(@, [call |-> call, raw |-> raw]),
                               !.during = @ \cup {pc}]
           ELSE peer' = [peer EXCEPT !.pc = "raised",
                                     !.searches = Append(@, [call |-> call, raw |-> <<>>]),
                                     !.during = @ \cup {pc}]
    /\ UNCHANGED <<storeVars, compareVars, error, batch, app, accessors>>

\* a store opened on the persisted collection, no call running
InitConcurrent ==
    /\ collection = PersistedCollection
    /\ nextId = 4
    /\ pc = "idle"
    /\ query = <<>>
    /\ product_urls = <<>>
    /\ analysis = NoAnalysis
    /\ results = <<>>
    /\ keyIdx = 1
    /\ result = None
    /\ llmCalls = <<>>
    /\ error = NoError
    /\ lastOp = NoOp
    /\ searches = <<>>
    /\ total_retrieved = 0
    /\ batch = NoBatch
    /\ peer = NoPeer
    /\ app = NoApp
    /\ accessors = NoAccessors

\* two callers, one in compare and one in retrieve, their steps interleaved
\* in any order; no mutation of the store runs meanwhile
NextConcurrent ==
    \/ \E q \in Queries, urls \in { <<>>, <<"u2", "u1">> } : StartCompare(q, urls)
    \/ \E resp \in SynthesisResponses : Analyze(resp)
    \/ \E o \in {"ok", "search_error"} : Search(o)
    \/ \E o \in {"ok", "search_error"} : Lookup(o)
    \/ \E gen \in SummaryGenerations : Generate(gen)
    \/ \E q \in Queries, n \in {1, 10}, m \in {0, Scale} : PeerRetrieve(q, n, m)
    \/ \E resp \in SynthesisResponses : PeerAnalyze(resp)
    \/ \E o \in {"ok", "search_error"} : PeerSearch(o)

SpecConcurrent == InitConcurrent /\ [][NextConcurrent]_vars

\* the index answers of which the lists handed to _ensure_diversity are made:
\* n stored entries at ascending distance
RawLists ==
    UNION { { [i \in 1..n |->
                 [id |-> f[i].id, document |-> f[i].document,
                  metadata |-> f[i].metadata, distance |-> Min(i - 1, 2 * Scale)]] :
              f \in [1..n -> {Entry(1, ProductA), Entry(2, ProductB), Entry(3, ProductA2)}] } :
            n \in 0..MaxList }

\* retrieve has processed the index answer and is about to filter it
InitDiversity ==
    /\ collection = {Entry(1, ProductA), Entry(2, ProductB), Entry(3, ProductA2)}
    /\ nextId = 3
    /\ pc = "diversity"
    /\ query = QComparePrice
    /\ product_urls = <<>>
    /\ analysis = _fallback_analysis(QComparePrice)
    /\ results \in { ProcessResults(raw, Len(raw), 0) : raw \in RawLists }
    /\ keyIdx = 1
    /\ result = None
    /\ llmCalls = <<>>
    /\ error = NoError
    /\ lastOp = NoOp
    /\ searches = <<>>
    /\ total_retrieved = 0
    /\ batch = NoBatch
    /\ peer = NoPeer
    /\ app = NoApp
    /\ accessors = NoAccessors

\* results = self._ensure_diversity(results, max_per_product)
EnsureDiversity(max_per_product) ==
    /\ pc = "diversity"
    /\ results' = _ensure_diversity(results, max_per_product)
    /\ total_retrieved' = Len(results')
    /\ pc' = "filtered"
    /\ UNCHANGED <<storeVars, outerVars, query, product_urls, analysis, keyIdx, result,
                   llmCalls, searches, error>>

NextDiversity == \E m \in 0..MaxCap : EnsureDiversity(m)

SpecDiversity == InitDiversity /\ [][NextDiversity]_vars

\* retrieve_for_comparison(query, product_urls) has been called with keys on a
\* store that holds two products
InitTargeted ==
    /\ collection = {Entry(1, ProductA), Entry(2, ProductB)}
    /\ nextId = 2
    /\ pc = "lookup"
    /\ query \in Queries
    /\ product_urls \in UNION { [1..n -> KeyUrls] : n \in 1..(MaxKeys + 1) }
    /\ analysis = NoAnalysis
    /\ results = <<>>
    /\ keyIdx = 1
    /\ result = None
    /\ llmCalls = <<>>
    /\ error = NoError
    /\ lastOp = NoOp
    /\ searches = <<>>
    /\ total_retrieved = 0
    /\ batch = NoBatch
    /\ peer = NoPeer
    /\ app = NoApp
    /\ accessors = NoAccessors

NextTargeted ==
    \/ \E o \in ServiceOutcomes : Lookup(o)
    \/ \E resp \in AnalyzerResponses : Analyze(resp)

SpecTargeted == InitTargeted /\ [][NextTargeted]_vars

\* one caller in retrieve(query, max_results, min_relevance), on the
\* persisted collection
NextRetrieve ==
    \/ \E q \in Queries, n \in {1, 2, 10}, m \in 0..Scale :
           PeerRetrieve(q, n, m)
    \/ \E resp \in AnalyzerResponses : PeerAnalyze(resp)
    \/ \E o \in ServiceOutcomes : PeerSearch(o)

SpecRetrieve == InitConcurrent /\ [][NextRetrieve]_vars

\* ------------------------------------------------- the Streamlit session
\* app.py: the handlers of one session. The session owns a VectorStore handle
\* (st.session_state.vector_store) and the list st.session_state.products; its
\* comparisons go through get_synthesizer(), whose retriever holds the handle
\* of get_vector_store(), a second VectorStore on the same directory.

\* add_products: VectorStore.add_products through the session's handle, then
\* products.extend; an exception of the store leaves the handler before extend
app_add_products(products, outcome) ==
    /\ pc = "idle"
    /\ nextId + Len(products) <= MaxIds
    /\ IF outcome = "ok"
       THEN /\ collection' = collection \cup
                    { Entry(nextId + i, products[i]) : i \in 1..Len(products) }
            /\ nextId' = nextId + Len(products)
            /\ error' = NoError
            /\ lastOp' = Op("add_products", "", [i \in 1..Len(products) |-> nextId + i])
            /\ app' = [app EXCEPT !.products = @ \o products]
       ELSE /\ collection' = collection
            /\ nextId' = nextId
            /\ error' = outcome
            /\ lastOp' = Op("add_products", "", <<>>)
            /\ app' = app
    /\ UNCHANGED <<compareVars, batch, peer, accessors>>

\* the Remove button of the index-th listed product: delete_by_url(product.url)
\* through the session's handle, then products.pop(index - 1)
app_remove(index) ==
    /\ pc = "idle"
    /\ index \in 1..Len(app.products)
    /\ LET url   == app.products[index].url
           found == { e \in collection : e.metadata.url = url }
       IN  /\ collection' = collection \ found
           /\ lastOp' = Op("delete_by_url", url, <<Cardinality(found)>>)
    /\ app' = [app EXCEPT !.products =
                   [i \in 1..(Len(@) - 1) |-> IF i < index THEN @[i] ELSE @[i + 1]]]
    /\ error' = NoError
    /\ UNCHANGED <<nextId, compareVars, batch, peer, accessors>>

\* Clear All Products: clear() through the session's handle deletes the
\* collection and binds that handle to a new one of the same name; the
\* retriever's handle, if it exists, keeps the collection object it had
app_clear_all ==
    /\ pc = "idle"
    /\ collection' = {}
    /\ lastOp' = Op("clear", "", <<>>)
    /\ error' = NoError
    /\ app' = [products |-> <<>>,
               handle   |-> IF app.handle = "none" THEN "none" ELSE "stale",
               dropped  |-> IF app.handle = "live" THEN collection ELSE app.dropped,
               answer   |-> app.answer]
    /\ UNCHANGED <<nextId, compareVars, batch, peer, accessors>>

\* compare_products: refuses while nothing is listed; else
\* get_synthesizer().compare(query); the first call constructs the retriever's
\* VectorStore, whose get_collection binds it to the current collection
compare_products(q) ==
    /\ pc = "idle"
    /\ Len(app.products) > 0
    /\ query' = q
    /\ product_urls' = <<>>
    /\ analysis' = NoAnalysis
    /\ results' = <<>>
    /\ keyIdx' = 1
    /\ result' = None
    /\ llmCalls' = <<>>
    /\ searches' = <<>>
    /\ total_retrieved' = 0
    /\ error' = NoError
    /\ pc' = "analyze"
    /\ app' = [app EXCEPT !.handle = IF @ = "none" THEN "live" ELSE @, !.answer = <<>>]
    /\ UNCHANGED <<storeVars, batch, peer, accessors>>

\* the semantic search of the compare call, through the retriever's handle.
\* What a query through a handle whose collection was deleted does is decided
\* by the installed chromadb (none is pinned): it raises because the collection
\* no longer exists ("raises"), answers from the entries of the deleted
\* collection ("deleted"), or resolves the name "products" again and answers
\* from the current collection ("current")
HandleSearch(outcome, resolution) ==
    /\ pc = "search"
    /\ searches' = Append(searches, QueryCall(analysis.expanded_query, 10, NoFilter))
    /\ IF outcome = "ok" /\ (app.handle = "live" \/ resolution # "raises")
       THEN \E raw \in VectorStoreQuery(
                           IF app.handle = "stale" /\ resolution = "deleted"
                           THEN app.dropped ELSE collection,
                           analysis.expanded_query, 10, NoFilter) :
                /\ results' = RetrieveResults(analysis, raw, 0)
                /\ total_retrieved' = Len(results')
                /\ AfterRetrieval(results')
                /\ error' = error
                /\ app' = [app EXCEPT !.answer = raw]
       ELSE /\ pc' = "raised"
            /\ error' = IF outcome = "ok" THEN "collection_missing" ELSE outcome
            /\ app' = app
            /\ UNCHANGED <<results, result, total_retrieved>>
    /\ UNCHANGED <<storeVars, batch, peer, accessors, query, product_urls, analysis,
                   keyIdx, llmCalls>>

NextApp ==
    \* one "Add Products" stores list(products_dict.values()) of
    \* extract_multiple, a dict keyed by url: no url twice in one list
    \/ \E ps \in { l \in BatchLists :
                     \A i, j \in 1..Len(l) : l[i].url = l[j].url => i = j },
          o \in ServiceOutcomes : app_add_products(ps, o)
    \/ \E i \in 1..MaxIds : app_remove(i)
    \/ app_clear_all
    \/ \E q \in Queries : compare_products(q)
    \/ \E resp \in SynthesisResponses : Analyze(resp)
    \/ \E o \in ServiceOutcomes, r \in {"raises", "deleted", "current"} :
          HandleSearch(o, r)
    \/ \E gen \in GenerationOutcomes : Generate(gen)
    \/ Return

SpecApp == Init /\ [][NextApp]_vars

\* ------------------------------------------------ the get_* accessors
\* Each accessor is `global _x; if _x is None: _x = X(); return _x` with no
\* lock; X.__init__ calls the accessors of Constructs in order. A thread is
\* the stack of the accessors it is inside: for each the next call of its
\* constructor, and whether `_x = X()` has been executed.
Frame(a) ==
    [accessor |-> a, next |-> 1, assigned |-> FALSE]

Top(t) ==
    accessors.stack[t][Len(accessors.stack[t])]

\* the stack of t with its top frame replaced
WithTop(t, frame) ==
    [accessors.stack[t] EXCEPT ![Len(accessors.stack[t])] = frame]

\* a thread outside every accessor calls accessor a: `if _x is None` is read;
\* an existing instance is returned, otherwise the constructor is entered
AccessorCall(t, a) ==
    /\ accessors.stack[t] = <<>>
    /\ accessors' =
         IF accessors.instance[a] # 0
         THEN [accessors EXCEPT !.returned[a] = @ \cup {accessors.instance[a]}]
         ELSE [accessors EXCEPT !.stack[t] = <<Frame(a)>>]
    /\ UNCHANGED <<storeVars, compareVars, error, batch, peer, app>>

\* the constructor t is in calls its next accessor: returned at once when the
\* instance exists, entered otherwise
ConstructorCall(t) ==
    /\ accessors.stack[t] # <<>>
    /\ ~Top(t).assigned
    /\ Top(t).next <= Len(Constructs(Top(t).accessor))
    /\ LET a == Constructs(Top(t).accessor)[Top(t).next]
       IN  accessors' =
             IF accessors.instance[a] # 0
             THEN [accessors EXCEPT
                      !.stack[t] = WithTop(t, [Top(t) EXCEPT !.next = @ + 1]),
                      !.returned[a] = @ \cup {accessors.instance[a]}]
             ELSE [accessors EXCEPT !.stack[t] = Append(@, Frame(a))]
    /\ UNCHANGED <<storeVars, compareVars, error, batch, peer, app>>

\* the constructor returns and `_x = X()` stores the new object, the
\* built[a]-th one constructed, whatever the global holds by now
AccessorAssign(t) ==
    /\ accessors.stack[t] # <<>>
    /\ ~Top(t).assigned
    /\ Top(t).next > Len(Constructs(Top(t).accessor))
    /\ LET a == Top(t).accessor
       IN  accessors' = [accessors EXCEPT
                            !.built[a] = @ + 1,
                            !.instance[a] = accessors.built[a] + 1,
                            !.stack[t] = WithTop(t, [Top(t) EXCEPT !.assigned = TRUE])]
    /\ UNCHANGED <<storeVars, compareVars, error, batch, peer, app>>

\* `return _x`: the global is read again and handed to the caller, the
\* constructor below or the thread's own code
AccessorReturn(t) ==
    /\ accessors.stack[t] # <<>>
    /\ Top(t).assigned
    /\ LET a    == Top(t).accessor
           rest == SubSeq(accessors.stack[t], 1, Len(accessors.stack[t]) - 1)
       IN  accessors' =
             [accessors EXCEPT
                !.stack[t] = IF rest = <<>> THEN <<>>
                             ELSE [rest EXCEPT ![Len(rest)].next = @ + 1],
                !.returned[a] = @ \cup {accessors.instance[a]}]
    /\ UNCHANGED <<storeVars, compareVars, error, batch, peer, app>>

NextAccessors ==
    \/ \E t \in Threads, a \in EntryAccessors : AccessorCall(t, a)
    \/ \E t \in Threads : ConstructorCall(t)
    \/ \E t \in Threads : AccessorAssign(t)
    \/ \E t \in Threads : AccessorReturn(t)

SpecAccessors == Init /\ [][NextAccessors]_vars

\* the mutations of the vector store alone
NextStore ==
    \/ \E p \in Products, o \in ServiceOutcomes : AddProduct(p, o)
    \/ \E ps \in BatchLists, o \in ServiceOutcomes : AddProducts(ps, o)
    \/ \E url \in KeyUrls \cup Urls : DeleteByUrl(url)
    \/ Clear

SpecStore == Init /\ [][NextStore]_vars

\* ------------------------------------------------------------------ claims
\* the call has returned a result built from an empty context
ReturnedEmpty == pc = "returned" /\ Len(results) = 0

\* the call has returned a result after a synthesis generation call
ReturnedSynthesis == pc = "returned" /\ Len(results) > 0 /\ Len(llmCalls) = 2

\* C1: compare never raises: whatever the analyzer's generation call, the
\* embedding call, the index search and the synthesis generation call do, no
\* exception leaves compare.
CompareNeverRaises == pc # "raised"

\* C2: a compare whose context has zero results returns no compared products,
\* the fixed "add products first" answer, no table and no citations.
NoResultsResult ==
    ReturnedEmpty =>
        /\ result.some
        /\ result.value.query = query
        /\ result.value.products_compared = <<>>
        /\ result.value.answer =
             <<"I couldn't find any products to compare. Please add products first.">>
        /\ ~result.value.comparison_table.some
        /\ result.value.citations = <<>>

\* explicit keys none of which is stored, on a collection that holds entries
NoResultsResultWitness ==
    ReturnedEmpty /\ product_urls # <<>> /\ collection # {} /\ result.some

\* C3 as stated: a compare call that ends with zero results never invoked the
\* generation service.
NoGenerationCallOnNoResults == ReturnedEmpty => Len(llmCalls) = 0

\* C3 amended: a compare call that ends with zero results invoked the
\* generation service exactly once, for the analyzer's classification, and
\* never for synthesis.
OnlyAnalyzerCallOnNoResults ==
    ReturnedEmpty => Len(llmCalls) = 1 /\ llmCalls[1].op = "generate_json"

\* compare without keys on an empty collection has returned
OnlyAnalyzerCallWitness ==
    ReturnedEmpty /\ product_urls = <<>> /\ collection = {} /\ Len(llmCalls) = 1

\* C4: when the synthesis generation call fails, compare returns the fixed
\* error answer of its path carrying the failure reason, no table, and the
\* retrieved titles as products_compared.
GenerationFailureResult ==
    (ReturnedSynthesis /\ ~llmCalls[2].resp.ok) =>
        /\ result.some
        /\ result.value.answer =
             << IF analysis.is_comparative THEN "Error generating comparison: "
                ELSE "Error generating answer: ",
                "LLM generation failed: ", llmCalls[2].resp.reason >>
        /\ ~result.value.comparison_table.some
        /\ Len(result.value.products_compared) = Len(results)
        /\ \A i \in 1..Len(results) :
             result.value.products_compared[i] = results[i].product_title

\* the generation call of a comparison over two results has failed
GenerationFailureWitness ==
    /\ ReturnedSynthesis
    /\ ~llmCalls[2].resp.ok
    /\ analysis.is_comparative
    /\ Len(results) = 2

\* the citations are the source keys of the results, one per result, in order
CitationsMatchResults ==
    /\ Len(result.value.citations) = Len(results)
    /\ Len(result.value.citations) = Len(result.value.products_compared)
    /\ \A i \in 1..Len(results) : result.value.citations[i] = results[i].metadata.url

\* C5 as stated: every compare call that reaches synthesis returns as
\* citations the source keys of its results, in order, one per result.
CitationsAfterEverySynthesis == ReturnedSynthesis => CitationsMatchResults

\* C5 amended: every compare call whose synthesis generation call succeeds
\* returns as citations the source keys of its results, in order, one per
\* result and without deduplication; when that call fails the citations are
\* empty.
CitationsAfterSuccessfulSynthesis ==
    ReturnedSynthesis =>
        IF llmCalls[2].resp.ok THEN CitationsMatchResults
        ELSE result.value.citations = <<>>

\* a successful synthesis over two results of the same source key
CitationsWitness ==
    /\ ReturnedSynthesis
    /\ llmCalls[2].resp.ok
    /\ Len(results) = 2
    /\ results[1].metadata.url = results[2].metadata.url
    /\ Len(result.value.citations) = 2

\* a decoded analysis object that holds every field the prompt asks for
WellFormedAnalysisObject(resp) == resp.kind = "json_object" /\ resp.keys = JsonFields

\* C6 as stated: whenever the classifier raises or returns output that is not
\* a well-formed analysis object, analyze returns the heuristic fallback.
FallbackOnMalformedOutput ==
    (Len(llmCalls) >= 1 /\ ~WellFormedAnalysisObject(llmCalls[1].resp)) =>
        analysis = _fallback_analysis(query)

\* C6 amended: whenever the classifier raises or returns output that does not
\* decode to a JSON object, analyze returns the heuristic fallback; a JSON
\* object is taken as it is, each missing field getting its default.
FallbackOnUndecodableOutput ==
    Len(llmCalls) >= 1 =>
        LET resp == llmCalls[1].resp
        IN  IF resp.kind # "json_object"
            THEN analysis = _fallback_analysis(query)
            ELSE /\ analysis.original_query = query
                 /\ analysis.query_type =
                      IF "query_type" \in resp.keys THEN resp.val.query_type ELSE "general"
                 /\ analysis.aspects =
                      IF "aspects" \in resp.keys THEN resp.val.aspects ELSE <<>>
                 /\ analysis.is_comparative =
                      IF "is_comparative" \in resp.keys THEN resp.val.is_comparative ELSE FALSE
                 /\ analysis.expanded_query =
                      IF "expanded_query" \in resp.keys THEN resp.val.expanded_query ELSE query

\* the classifier answered a comparative query with JSON that is no object
FallbackWitness ==
    /\ Len(llmCalls) >= 1
    /\ llmCalls[1].resp.kind = "json_non_object"
    /\ analysis.is_comparative
    /\ analysis.aspects = <<"price">>

\* the aspect tags of the fallback's keyword table and of the analyzer prompt
AspectTaxonomy ==
    { aspect_keywords[i].aspect : i \in 1..Len(aspect_keywords) } \cup {"reviews"}

\* C7: the aspects of every analysis returned by analyze are within the fixed
\* aspect taxonomy.
AspectsWithinTaxonomy ==
    \A i \in 1..Len(analysis.aspects) : analysis.aspects[i] \in AspectTaxonomy

\* the text the index was searched with for the current results
SearchText == IF product_urls # <<>> THEN query ELSE analysis.expanded_query

\* C8: every RetrievalResult has relevance_score = clamp(1 - distance, 0, 1),
\* which lies in [0, 1].
RelevanceIsClampedDistance ==
    \A i \in 1..Len(results) :
        LET distance == Distance(encode(SearchText), encode(results[i].content))
        IN  /\ results[i].relevance_score = Max(0, Min(Scale, Scale - distance))
            /\ results[i].relevance_score >= 0
            /\ results[i].relevance_score <= Scale

\* C9: the results retrieve returns for a comparative query hold no product
\* title twice.
NoDuplicateTitles ==
    (product_urls = <<>> /\ analysis.is_comparative) =>
        \A i, j \in 1..Len(results) :
            i # j => results[i].product_title # results[j].product_title

\* a comparative retrieve over three entries, two of one title, kept two
NoDuplicateTitlesWitness ==
    /\ product_urls = <<>>
    /\ analysis.is_comparative
    /\ pc = "generate"
    /\ Cardinality(collection) = 3
    /\ Len(results) = 2

\* some entry of the collection has the source key url
StoredKey(url) == \E e \in collection : e.metadata.url = url

\* C10: the source keys of the results of retrieve_for_comparison are the
\* keys looked up so far that have an entry, in key order: a subsequence of
\* the key list, a key without an entry being skipped.
KeysSubsequence ==
    product_urls # <<>> =>
        LET looked_up == SelectSeq(SubSeq(product_urls, 1, keyIdx - 1), StoredKey)
        IN  /\ Len(results) = Len(looked_up)
            /\ Len(results) <= Len(product_urls)
            /\ \A i \in 1..Len(results) : results[i].metadata.url = looked_up[i]

\* the first of two keys has no entry, the second has one
KeysSubsequenceWitness ==
    /\ pc = "returned"
    /\ Len(product_urls) = 2
    /\ ~StoredKey(product_urls[1])
    /\ StoredKey(product_urls[2])
    /\ Len(results) = 1

\* the texts, sizes and filters a caller may query the store with
QueryTexts == Queries \cup {QPhone}
QueryFilters == {NoFilter} \cup { UrlFilter(u) : u \in KeyUrls \cup Urls }

\* C11: after clear() the index is an empty index: count() is 0 and every
\* query, whatever its text, size and filter, returns no result, until the
\* next mutation.
ClearLeavesEmptyIndex ==
    lastOp.op = "clear" =>
        /\ Cardinality(collection) = 0
        /\ \A text \in QueryTexts, k \in 1..(MaxIds + 1), f \in QueryFilters :
             \A raw \in VectorStoreQuery(collection, text, k, f) : Len(raw) = 0

\* clear() has returned on a store to which entries had been added
ClearLeavesEmptyIndexWitness == lastOp.op = "clear" /\ nextId >= 2

\* C12: delete_by_url(u) removes exactly the entries whose source key is u,
\* leaves every other entry as it was and returns the number removed, by
\* which count() has decreased.
DeleteByUrlEffect ==
    [][\A u \in KeyUrls \cup Urls :
         DeleteByUrl(u) =>
           /\ \A e \in collection' : e.metadata.url # u
           /\ \A e \in collection : e.metadata.url # u => e \in collection'
           /\ collection' \subseteq collection
           /\ lastOp'.ret = <<Cardinality(collection) - Cardinality(collection')>>]_vars

\* two entries of one source key were removed and another entry is left
DeleteByUrlWitness ==
    /\ lastOp.op = "delete_by_url"
    /\ lastOp.ret = <<2>>
    /\ Cardinality(collection) = 1
    /\ \A e \in collection : e.metadata.url # lastOp.arg

\* a comparison whose synthesis generation call succeeded has returned
ComparisonSynthesized ==
    ReturnedSynthesis /\ analysis.is_comparative /\ llmCalls[2].resp.ok

\* the ranks the table extraction looks at
TopRanks == 1..Min(5, Len(results))

\* C13 as stated: after a successful comparative synthesis the table is absent
\* when there are fewer than 2 results; otherwise it maps the title of each of
\* the top min(5, n) results to the brand, currency and price, and rating of
\* that same result.
TableRowPerResult ==
    ComparisonSynthesized =>
        LET table == result.value.comparison_table
        IN  IF Len(results) < 2 THEN ~table.some
            ELSE /\ table.some
                 /\ DOMAIN table.value = { results[i].product_title : i \in TopRanks }
                 /\ \A i \in TopRanks :
                      table.value[results[i].product_title] = TableRow(results[i])

\* C13 amended: after a successful comparative synthesis the table is absent
\* when there are fewer than 2 results or a top result lacks a metadata key;
\* otherwise its keys are the titles of the top min(5, n) results and each
\* title maps to the row of the last top result that carries it, which is the
\* result's own row whenever no later top result has the same title.
TableRowOfLastResultPerTitle ==
    ComparisonSynthesized =>
        LET table == result.value.comparison_table
        IN  IF Len(results) < 2 \/ \E i \in TopRanks : TableKeyError(results[i])
            THEN ~table.some
            ELSE /\ table.some
                 /\ DOMAIN table.value = { results[i].product_title : i \in TopRanks }
                 /\ \A i \in TopRanks :
                      (\A j \in TopRanks :
                         j > i => results[j].product_title # results[i].product_title)
                      => table.value[results[i].product_title] = TableRow(results[i])

\* six results: two of the top five share a title with different rows, and
\* the sixth result's title is not in the table
TableRowWitness ==
    /\ ComparisonSynthesized
    /\ Len(results) = 6
    /\ result.value.comparison_table.some
    /\ results[6].product_title \notin DOMAIN result.value.comparison_table.value
    /\ \E i, j \in TopRanks :
         /\ i < j
         /\ results[i].product_title = results[j].product_title
         /\ TableRow(results[i]) # TableRow(results[j])

\* C14: when the table extraction hits a missing metadata key, compare still
\* returns the generated answer with products_compared and citations filled
\* and no table; the result is not the generation-failure result and nothing
\* is raised.
TableOmittedOnExtractionError ==
    ( /\ Len(llmCalls) = 2
      /\ llmCalls[2].resp.ok
      /\ analysis.is_comparative
      /\ Len(results) >= 2
      /\ \E i \in TopRanks : TableKeyError(results[i]) ) =>
        /\ pc = "returned"
        /\ error = NoError
        /\ result.some
        /\ result.value.answer = <<llmCalls[2].resp.text>>
        /\ ~result.value.comparison_table.some
        /\ Len(result.value.products_compared) = Len(results)
        /\ \A i \in 1..Len(results) :
             result.value.products_compared[i] = results[i].product_title
        /\ result.value.citations # <<>>
        /\ CitationsMatchResults

\* a successful comparison over three results, the second lacking its price
TableOmittedWitness ==
    /\ ComparisonSynthesized
    /\ Len(results) = 3
    /\ ~TableKeyError(results[1])
    /\ TableKeyError(results[2])
    /\ ~result.value.comparison_table.some

\* this step issues an index search
SearchIssued == Len(searches') = Len(searches) + 1

\* this step issues the analyzer's generation call
AnalysisIssued == Len(llmCalls) = 0 /\ Len(llmCalls') = 1

\* this step builds the prompt and issues the synthesis generation call
SynthesisIssued == Len(llmCalls) = 1 /\ Len(llmCalls') = 2

\* every search of the call's retrieval has been answered
RetrievalFinished ==
    IF product_urls = <<>> THEN Len(searches) = 1
    ELSE Len(searches) = Len(product_urls)

\* C15 as stated: in every compare call, with and without explicit keys, the
\* query analysis has completed before the first index search is issued, and
\* synthesis starts only after retrieval has finished with at least one result.
AnalysisBeforeFirstSearch ==
    [][/\ SearchIssued => Len(llmCalls) >= 1 /\ analysis # NoAnalysis
       /\ SynthesisIssued => RetrievalFinished /\ Len(results) >= 1]_vars

\* C15 amended: without explicit keys the query analysis completes before the
\* single index search is issued; with explicit keys every lookup is issued
\* before the analysis, which runs once the last lookup has been answered; in
\* both cases synthesis starts only after analysis and retrieval have finished
\* with at least one result.
AnalysisOrderPerPath ==
    [][/\ SearchIssued =>
            IF product_urls = <<>>
            THEN Len(llmCalls) = 1 /\ analysis # NoAnalysis /\ Len(searches) = 0
            ELSE Len(llmCalls) = 0 /\ analysis = NoAnalysis
       /\ AnalysisIssued =>
            IF product_urls = <<>> THEN Len(searches) = 0 ELSE RetrievalFinished
       /\ SynthesisIssued =>
            RetrievalFinished /\ Len(results) >= 1 /\ analysis # NoAnalysis]_vars

\* a compare with two explicit keys has returned a synthesized result
AnalysisOrderWitness ==
    /\ ReturnedSynthesis
    /\ Len(product_urls) = 2
    /\ Len(searches) = 2
    /\ analysis # NoAnalysis

\* the ranks of the results rendered into the formatted context: one per
\* "## Product" heading line of the text
RenderedRanks(context) ==
    1..Cardinality({ l \in 1..Len(context) :
                       Len(context[l]) = 4 /\ context[l][1] = "## Product " })

\* C18: every citation of a successfully synthesized result is the source key
\* of a result rendered into the formatted context passed to the generation
\* service; no result beyond the cut-off (5 comparative, 3 direct) is cited.
CitationsWithinRenderedContext ==
    (ReturnedSynthesis /\ llmCalls[2].resp.ok) =>
        \A j \in 1..Len(result.value.citations) :
            \E i \in RenderedRanks(llmCalls[2].context) :
                results[i].metadata.url = result.value.citations[j]

\* the RetrievalContext of the current call has been built
ContextBuilt == pc \in {"generate", "returned"}

\* relevance_score is non-increasing along the results
DescendingRelevance ==
    \A i, j \in 1..Len(results) :
        i < j => results[i].relevance_score >= results[j].relevance_score

\* C19 as stated: in every RetrievalContext returned by retrieve or
\* retrieve_for_comparison the results are in descending relevance and the
\* total count equals the length of the list.
ResultsInDescendingRelevance ==
    ContextBuilt => DescendingRelevance /\ total_retrieved = Len(results)

\* C19 amended: the total count equals the length of the list in every
\* RetrievalContext; the results of retrieve are in descending relevance; the
\* results of retrieve_for_comparison with explicit keys are in the order of
\* the keys, whatever their relevance.
ResultsInRankOrKeyOrder ==
    ContextBuilt =>
        /\ total_retrieved = Len(results)
        /\ IF product_urls = <<>> THEN DescendingRelevance
           ELSE LET stored == SelectSeq(product_urls, StoredKey)
                IN  /\ Len(results) = Len(stored)
                    /\ \A i \in 1..Len(results) : results[i].metadata.url = stored[i]

\* an explicit-key call whose second result is more relevant than its first
KeyOrderWitness ==
    /\ ContextBuilt /\ product_urls # <<>> /\ Len(results) = 2
    /\ results[1].relevance_score < results[2].relevance_score

\* the nine comparative keywords
NineComparativeKeywords ==
    { <<"c","o","m","p","a","r","e">>,
      <<"v","e","r","s","u","s">>,
      <<"v","s">>,
      <<"w","h","i","c","h">>,
      <<"b","e","t","t","e","r">>,
      <<"b","e","s","t">>,
      <<"d","i","f","f","e","r","e","n","c","e">>,
      <<"b","e","t","w","e","e","n">>,
      <<"o","r">> }

\* the three keywords of a specific query
ThreeSpecificKeywords == { <<"t","e","l","l"," ","m","e">>, <<"w","h","a","t"," ","i","s">>, <<"h","o","w">> }

\* C20: the heuristic fallback is a function of the lower-cased query:
\* is_comparative iff it contains one of the nine comparative keywords;
\* query_type is "comparison" iff is_comparative, else "specific" iff it
\* contains "tell me", "what is" or "how", else "general"; aspects is exactly
\* the set of aspects one of whose keywords occurs in it; entities is empty
\* and expanded_query is the query as given.
FallbackIsKeywordFunction ==
    (Len(llmCalls) >= 1 /\ llmCalls[1].resp.kind \notin {"json_object"}) =>
        LET q == Lower(query)
            comparative == \E kw \in NineComparativeKeywords : Contains(q, kw)
            specific == \E kw \in ThreeSpecificKeywords : Contains(q, kw)
            tagged == { i \in 1..Len(aspect_keywords) :
                          \E j \in 1..Len(aspect_keywords[i].keywords) :
                              Contains(q, aspect_keywords[i].keywords[j]) }
        IN  /\ analysis.is_comparative = comparative
            /\ analysis.query_type = "comparison" <=> comparative
            /\ analysis.query_type = "specific" <=> (~comparative /\ specific)
            /\ analysis.query_type = "general" <=> (~comparative /\ ~specific)
            /\ { analysis.aspects[i] : i \in 1..Len(analysis.aspects) }
                 = { aspect_keywords[i].aspect : i \in tagged }
            /\ Len(analysis.aspects) = Cardinality(tagged)
            /\ analysis.entities = <<>>
            /\ analysis.expanded_query = query
            /\ analysis.original_query = query

\* the fallback has analysed a query whose keywords are typed in capitals
FallbackKeywordWitness ==
    /\ Len(llmCalls) >= 1
    /\ llmCalls[1].resp.kind = "error"
    /\ query # Lower(query)
    /\ analysis.is_comparative
    /\ analysis.query_type = "comparison"
    /\ analysis.aspects = <<"price">>
    /\ analysis.expanded_query = query

\* the compare calls made so far are one per input element, in input order,
\* each with the caller's keys
CalledOncePerElement ==
    /\ Len(batch.calls) = batch.idx - 1
    /\ Len(batch.calls) <= Len(batch.queries)
    /\ \A i \in 1..Len(batch.calls) :
         /\ batch.calls[i].query = batch.queries[i]
         /\ batch.calls[i].product_urls = batch.keys

\* the position in the calls of the first and of the last call for a query
FirstCall(q) ==
    CHOOSE c \in 1..Len(batch.calls) :
        /\ batch.calls[c].query = q
        /\ \A d \in 1..Len(batch.calls) : batch.calls[d].query = q => d >= c
LastCall(q) ==
    CHOOSE c \in 1..Len(batch.calls) :
        /\ batch.calls[c].query = q
        /\ \A d \in 1..Len(batch.calls) : batch.calls[d].query = q => d <= c

RetrieveAlone(coll, q, max_results, min_relevance, resp) ==
    LET an == analyze(q, resp)
    IN  { RetrieveResults(an, raw, min_relevance) :
            raw \in VectorStoreQuery(coll, an.expanded_query, max_results, NoFilter) }

\* rs is what retrieve_for_comparison(q, urls) collects when it runs alone on
\* the collection coll
TargetedAlone(coll, q, urls, rs) ==
    LET stored == SelectSeq(urls, LAMBDA u : \E e \in coll : e.metadata.url = u)
    IN  /\ Len(rs) = Len(stored)
        /\ \A i \in 1..Len(rs) :
             \E raw \in VectorStoreQuery(coll, q, 1, UrlFilter(stored[i])) :
                 rs[i] = RetrievalResult(raw[1], TargetedRelevance(raw[1].distance))

\* C17: retrieve, retrieve_for_comparison and compare only read the index:
\* under any interleaving of a compare call and a concurrent retrieve call,
\* with no mutation running, the entries of the index and its count stay as
\* they were, and each call returns what it returns when run alone on that
\* index with the same answers of the generation service.
ConcurrentReadsIsolated ==
    /\ collection = PersistedCollection
    /\ Cardinality(collection) = Cardinality(PersistedCollection)
    /\ peer.pc = "returned" =>
         /\ peer.analysis = analyze(peer.query, peer.llmCalls[1].resp)
         /\ peer.results \in RetrieveAlone(PersistedCollection, peer.query,
                                           peer.max_results, peer.min_relevance,
                                           peer.llmCalls[1].resp)
    /\ pc = "returned" =>
         /\ analysis = analyze(query, llmCalls[1].resp)
         /\ IF product_urls = <<>>
            THEN results \in RetrieveAlone(PersistedCollection, query, 10, 0,
                                           llmCalls[1].resp)
            ELSE TargetedAlone(PersistedCollection, query, product_urls, results)
         /\ result = Some(IF Len(results) = 0 THEN NoResults(query)
                          ELSE IF analysis.is_comparative
                               THEN _generate_comparison(query, results, llmCalls[2].resp)
                               ELSE _generate_answer(query, results, llmCalls[2].resp))

\* both calls have returned results for different queries, the retrieve call
\* having taken its steps before the compare call's analysis and before its
\* generation call
ConcurrentWitness ==
    /\ pc = "returned"
    /\ peer.pc = "returned"
    /\ query # peer.query
    /\ analysis # peer.analysis
    /\ Len(results) >= 1
    /\ Len(peer.results) >= 1
    /\ {"analyze", "generate"} \subseteq peer.during

\* the walk of the diversity rule over the first n entries of rs: an entry is
\* kept only if fewer than max_per_product entries of its title are kept
RECURSIVE KeptByWalk(_, _, _)
KeptByWalk(rs, n, max_per_product) ==
    IF n = 0 THEN <<>>
    ELSE LET kept == KeptByWalk(rs, n - 1, max_per_product)
         IN  IF CountTitle(kept, rs[n].product_title) < max_per_product
             THEN Append(kept, rs[n]) ELSE kept

\* C21: for every input list and every max_per_product the diversity filter
\* returns exactly the entries kept by walking the list in order and keeping
\* an entry only while fewer than max_per_product entries of its title are
\* kept; the output holds at most max_per_product entries per title.
DiversityKeepsBelowCap ==
    [][\A m \in 0..MaxCap :
         EnsureDiversity(m) =>
           /\ results' = KeptByWalk(results, Len(results), m)
           /\ \A i \in 1..Len(results') :
                CountTitle(results', results'[i].product_title) <= m]_vars

\* the analyzer's invocations among the generation-service calls of the call
AnalyzerCalls == { c \in 1..Len(llmCalls) : llmCalls[c].op = "generate_json" }

\* C22: retrieve_for_comparison with n >= 1 keys searches the index once per
\* key, in key order, each time for one result filtered on that key, and
\* invokes the analyzer once for the whole query, never per key; when it
\* returns it has searched exactly n times and analysed exactly once, also
\* when keys have no entry.
OneLookupPerKeyOneAnalysis ==
    product_urls # <<>> =>
        /\ Len(searches) <= Len(product_urls)
        /\ \A i \in 1..Len(searches) :
             searches[i] = QueryCall(query, 1, UrlFilter(product_urls[i]))
        /\ Cardinality(AnalyzerCalls) <= 1
        /\ Cardinality(AnalyzerCalls) = 1 => Len(searches) = Len(product_urls)
        /\ ContextBuilt =>
             /\ Len(searches) = Len(product_urls)
             /\ Cardinality(AnalyzerCalls) = 1

\* three keys, the first two without an entry, have been looked up and the
\* context holds the single result
OneLookupPerKeyWitness ==
    /\ ContextBuilt
    /\ Len(product_urls) = 3
    /\ ~StoredKey(product_urls[1])
    /\ ~StoredKey(product_urls[2])
    /\ StoredKey(product_urls[3])
    /\ Len(results) = 1
    /\ Len(searches) = 3
    /\ Len(llmCalls) = 1

\* the entry of the collection coll stored under the document id
EntryOfId(coll, id) == CHOOSE e \in coll : e.id = id

\* this step stored exactly the products ps, one entry each, under the ids
\* returned, distinct and in the order of ps
StoredWhole(ps) ==
    LET ids == lastOp'.ret
    IN  /\ collection \subseteq collection'
        /\ Cardinality(collection') = Cardinality(collection) + Len(ps)
        /\ Len(ids) = Len(ps)
        /\ \A i, j \in 1..Len(ids) : i # j => ids[i] # ids[j]
        /\ { e.id : e \in collection' \ collection } = { ids[i] : i \in 1..Len(ids) }
        /\ \A i \in 1..Len(ids) :
             /\ \E e \in collection' \ collection : e.id = ids[i]
             /\ EntryOfId(collection', ids[i]).metadata.url = ps[i].url
             /\ EntryOfId(collection', ids[i]).document = to_text(ps[i])

\* C23: add_product and add_products store all or nothing: when the
\* embedding service or the collection write fails, the entries and the
\* count are unchanged; a successful add_products(docs) grows the count by
\* len(docs) and returns len(docs) distinct ids in input order; no step ever
\* stores part of a batch.
AddsAreAtomic ==
    [][/\ \A p \in Products, o \in ServiceOutcomes :
            AddProduct(p, o) =>
                IF o = "ok" THEN StoredWhole(<<p>>) ELSE collection' = collection
       /\ \A ps \in BatchLists, o \in ServiceOutcomes :
            AddProducts(ps, o) =>
                IF o = "ok" THEN StoredWhole(ps) ELSE collection' = collection
       /\ (collection' \ collection # {}) =>
            /\ lastOp'.op \in {"add_product", "add_products"}
            /\ Cardinality(collection' \ collection) = Len(lastOp'.ret)]_vars

\* a batch add has failed on a store of two entries and left the two entries
AddsAreAtomicWitness ==
    /\ lastOp.op = "add_products"
    /\ lastOp.ret = <<>>
    /\ error # NoError
    /\ Cardinality(collection) = 2
    /\ nextId = 2

\* the max_products compare passes to format_context_for_llm
MaxProductsPassed == IF analysis.is_comparative THEN 5 ELSE 3

\* the number of lines before the first product section
HeaderLines == IF analysis.aspects # <<>> THEN 9 ELSE 7

\* C24: format_context_for_llm(context, max_products) emits exactly
\* min(max_products, len(results)) product sections, numbered from 1 and in
\* the order of the results, each followed by the delimiter line; the
\* "Focus Areas" line is there iff the analysis has aspects; every line is
\* determined by the context and max_products.
FormatEmitsTopSections ==
    Len(llmCalls) = 2 =>
        LET text == llmCalls[2].context
            m == Min(MaxProductsPassed, Len(results))
            at(i) == HeaderLines + 8 * (i - 1)
        IN  /\ Len(text) = HeaderLines + 8 * m
            /\ Cardinality(RenderedRanks(text)) = m
            /\ text[1] = <<"# Product Information">>
            /\ text[3] = <<"Query: ", query>>
            /\ text[4] = <<"Query Type: ", analysis.query_type>>
            /\ IF analysis.aspects # <<>>
               THEN text[6] = <<"Focus Areas: ", analysis.aspects>>
               ELSE \A l \in 1..Len(text) :
                        Len(text[l]) = 2 => text[l][1] # "Focus Areas: "
            /\ text[HeaderLines - 1] = <<"---">>
            /\ \A i \in 1..m :
                 /\ text[at(i) + 1] = <<"## Product ", i, ": ", results[i].product_title>>
                 /\ text[at(i) + 2] = <<"Brand: ", results[i].brand>>
                 /\ text[at(i) + 3] = <<"Relevance: ", results[i].relevance_score>>
                 /\ text[at(i) + 5] = <<results[i].content>>
                 /\ text[at(i) + 7] = <<"---">>

\* a direct answer over four results and an analysis without aspects: three
\* sections and no "Focus Areas" line
FormatWitness ==
    /\ Len(llmCalls) = 2
    /\ ~analysis.is_comparative
    /\ analysis.aspects = <<>>
    /\ Len(results) = 4
    /\ Len(llmCalls[2].context) = 7 + 8 * 3

\* the positions of the index answer raw whose relevance reaches min_relevance
Candidates(raw, min_relevance) ==
    { i \in 1..Len(raw) : Relevance(raw[i].distance) >= min_relevance }

\* C25: retrieve(query, max_results, min_relevance) searches the index once,
\* with the analysis's expanded_query and k = max_results, and returns at most
\* max_results results, each of relevance >= min_relevance; a candidate of
\* the index answer is left out only for relevance < min_relevance or, in a
\* comparative analysis, because an earlier candidate of its title was kept.
RetrieveSearchesOnceAndFilters ==
    peer.pc = "returned" =>
        LET raw == peer.searches[1].raw
            cand == Candidates(raw, peer.min_relevance)
            all == ProcessResults(raw, Len(raw), peer.min_relevance)
        IN  /\ Len(peer.searches) = 1
            /\ peer.searches[1].call =
                 QueryCall(peer.analysis.expanded_query, peer.max_results, NoFilter)
            /\ Len(raw) <= peer.max_results
            /\ Len(peer.results) <= peer.max_results
            /\ \A i \in 1..Len(peer.results) :
                 peer.results[i].relevance_score >= peer.min_relevance
            /\ Len(all) = Cardinality(cand)
            /\ IF ~peer.analysis.is_comparative THEN peer.results = all
               ELSE \E keep \in SUBSET (1..Len(all)) :
                      /\ Len(peer.results) = Cardinality(keep)
                      /\ \A i \in 1..Len(all) :
                           i \in keep <=>
                             \A j \in 1..(i - 1) :
                                 all[j].product_title # all[i].product_title
                      /\ \A i \in keep :
                           peer.results[Cardinality({ j \in keep : j <= i })] = all[i]

\* a comparative retrieve has returned results after leaving out one answer
\* of the index for its relevance and another for its repeated title
RetrieveWitness ==
    /\ peer.pc = "returned"
    /\ peer.min_relevance > 0
    /\ peer.analysis.is_comparative
    /\ Cardinality(Candidates(peer.searches[1].raw, peer.min_relevance))
         < Len(peer.searches[1].raw)
    /\ Len(peer.results)
         < Cardinality(Candidates(peer.searches[1].raw, peer.min_relevance))
    /\ Len(peer.results) >= 1

\* ---------------------------------------------------------------------------
\* C26: once clear() was issued through the session's handle, a search issued
\* through the retriever's handle does not raise for a missing collection and
\* answers only with entries of the current collection, not with entries that
\* existed before the clear; over an empty collection the compare call returns
\* the NO_RESULTS outcome.
ClearObservedByRetriever ==
    (app.handle = "stale" /\ searches # <<>>) =>
        /\ error # "collection_missing"
        /\ \A i \in 1..Len(app.answer) :
               \E e \in collection : e.id = app.answer[i].id
        /\ (collection = {} /\ pc = "returned") => result = Some(NoResults(query))

\* ---------------------------------------------------------------------------
\* C27: whenever compare returns a comparison_table over n >= 2 results, the
\* table holds exactly min(5, n) entries, one per top-ranked result, also for
\* results looked up by product_urls, where two results may share a title.
TableEntryPerTopResult ==
    (ReturnedSynthesis /\ Len(results) >= 2 /\ result.value.comparison_table.some) =>
        Cardinality(DOMAIN result.value.comparison_table.value) = Min(5, Len(results))

\* ---------------------------------------------------------------------------
\* C28: every QueryAnalysis returned by analyze, on the LLM-backed path and on
\* the fallback alike, has is_comparative true iff its query_type is
\* "comparison", so compare takes the comparative path exactly for the queries
\* classified as comparisons.
ComparativeIffComparison ==
    (llmCalls # <<>> /\ llmCalls[1].op = "generate_json") =>
        (analysis.is_comparative <=> analysis.query_type = "comparison")

\* ---------------------------------------------------------------------------
\* C29: get_vector_store, get_retriever, get_synthesizer and get_llm_client
\* each construct their object at most once per process and return the same
\* instance to every caller, also when several threads make their first call
\* concurrently.
ConstructedOnce ==
    \A a \in EntryAccessors :
        /\ accessors.built[a] <= 1
        /\ Cardinality(accessors.returned[a]) <= 1

\* ---------------------------------------------------------------------------
\* C30: in a session started on an empty index, after any sequence of Add
\* Products, Remove and Clear All Products the session's product list and the
\* index agree: as many products are listed as count() reports, and a url is
\* listed iff the index holds an entry with that url, also when the same url
\* was added by two separate Add Products.
ListAgreesWithIndex ==
    /\ Len(app.products) = Cardinality(collection)
    /\ \A url \in Urls :
         (\E i \in 1..Len(app.products) : app.products[i].url = url)
         <=> (\E e \in collection : e.metadata.url = url)

====
